---- MODULE Spec2Model ----
(***************************************************************************)
(* Model of the KiCad MCP server's command bridge (src/main.py): the       *)
(* process-wide KiCadClient session, the generic dispatcher                *)
(* cpp_sdk_action, the tool functions that call it, and get_netlist.       *)
(*                                                                         *)
(* Text (a Python str or bytes value) is a sequence of lexical tokens.     *)
(* A token is a record [k, n, s]: k is its kind, n the characters of a     *)
(* bare word, s the content of a quoted string or of a base64 run.         *)
(***************************************************************************)
EXTENDS Integers, Sequences, FiniteSets, TLC

Tok(k, n, s) == [k |-> k, n |-> n, s |-> s]

LB == Tok("{", "", <<>>)
RB == Tok("}", "", <<>>)
LS == Tok("[", "", <<>>)
RS == Tok("]", "", <<>>)
COLON == Tok(":", "", <<>>)
COMMA == Tok(",", "", <<>>)
\* a byte that is not valid UTF-8
XFF == Tok("xff", "", <<>>)
\* a run of plain characters
W(n) == Tok("w", n, <<>>)
\* a quoted string literal whose content is the text s
Q(s) == Tok("q", "", s)
\* the quoted string literal of a plain word
QW(n) == Q(<<W(n)>>)

(***************************************************************************)
(* Python values: [t, s, m].  t is the type, s the text of a str (or the   *)
(* literal of a number), m the members of a dict or the items of a list    *)
(* (a member is [key, val]; a list item has key <<>>).                     *)
(***************************************************************************)
PyVal(t, s, m) == [t |-> t, s |-> s, m |-> m]
PyNone == PyVal("none", <<>>, <<>>)
PyStr(s) == PyVal("str", s, <<>>)
PyWord(n) == PyStr(<<W(n)>>)
PyNum(n) == PyVal("num", <<W(n)>>, <<>>)
PyBool(n) == PyVal("bool", <<W(n)>>, <<>>)
PyDict(m) == PyVal("dict", <<>>, m)
PyList(m) == PyVal("list", <<>>, m)
\* a value json.dumps cannot serialize (a set, a bytes object, ...)
PyObject == PyVal("object", <<>>, <<>>)
Member(key, val) == [key |-> key, val |-> val]
Item(val) == Member(<<>>, val)
KV(n, val) == Member(<<W(n)>>, val)

\* key in d, for a dict d
HasKey(d, key) == \E i \in 1..Len(d.m) : d.m[i].key = key

\* d[key] / d.get(key): the last member with that key wins; PyNone when absent
DictGet(d, key) ==
    IF HasKey(d, key)
    THEN LET i == CHOOSE j \in 1..Len(d.m) :
                     /\ d.m[j].key = key
                     /\ \A l \in (j+1)..Len(d.m) : d.m[l].key # key
         IN d.m[i].val
    ELSE PyNone

IsNumberLiteral(n) == n \in {"0", "1", "5"}

ParseFail == [ok |-> FALSE, val |-> PyNone, rest |-> <<>>]
ParseOk(v, rest) == [ok |-> TRUE, val |-> v, rest |-> rest]

RECURSIVE ParseValue(_), ParseMembers(_, _), ParseItems(_, _)

\* json.loads, the recursive descent over one value
ParseValue(txt) ==
    IF txt = <<>> THEN ParseFail
    ELSE LET h == Head(txt)
             r == Tail(txt)
         IN CASE h.k = "q" -> ParseOk(PyStr(h.s), r)
              [] h.k = "w" ->
                    IF IsNumberLiteral(h.n) THEN ParseOk(PyNum(h.n), r)
                    ELSE IF h.n = "null" THEN ParseOk(PyNone, r)
                    ELSE IF h.n \in {"true", "false"} THEN ParseOk(PyBool(h.n), r)
                    ELSE ParseFail
              [] h.k = "{" ->
                    IF r # <<>> /\ Head(r) = RB
                    THEN ParseOk(PyDict(<<>>), Tail(r))
                    ELSE ParseMembers(r, <<>>)
              [] h.k = "[" ->
                    IF r # <<>> /\ Head(r) = RS
                    THEN ParseOk(PyList(<<>>), Tail(r))
                    ELSE ParseItems(r, <<>>)
              [] OTHER -> ParseFail

\* the members of an object after "{" or ",": "key" : value, then "," or "}"
ParseMembers(txt, acc) ==
    IF Len(txt) < 3 \/ txt[1].k # "q" \/ txt[2] # COLON THEN ParseFail
    ELSE LET v == ParseValue(SubSeq(txt, 3, Len(txt)))
         IN IF ~v.ok \/ v.rest = <<>> THEN ParseFail
            ELSE LET acc2 == Append(acc, Member(txt[1].s, v.val))
                     nx == Head(v.rest)
                 IN IF nx = RB THEN ParseOk(PyDict(acc2), Tail(v.rest))
                    ELSE IF nx = COMMA THEN ParseMembers(Tail(v.rest), acc2)
                    ELSE ParseFail

\* the items of an array after "[" or ",": value, then "," or "]"
ParseItems(txt, acc) ==
    LET v == ParseValue(txt)
    IN IF ~v.ok \/ v.rest = <<>> THEN ParseFail
       ELSE LET acc2 == Append(acc, Item(v.val))
                nx == Head(v.rest)
            IN IF nx = RS THEN ParseOk(PyList(acc2), Tail(v.rest))
               ELSE IF nx = COMMA THEN ParseItems(Tail(v.rest), acc2)
               ELSE ParseFail

\* bytes.decode(): fails on a byte that is not valid UTF-8
Utf8Ok(bytes) == \A i \in 1..Len(bytes) : bytes[i].k # "xff"

\* json.loads(text): one value and nothing after it
JsonLoads(txt) ==
    LET r == ParseValue(txt)
    IN IF r.ok /\ r.rest = <<>> THEN [ok |-> TRUE, val |-> r.val]
       ELSE [ok |-> FALSE, val |-> PyNone]

RECURSIVE Dumpable(_), DumpsText(_), DumpMembers(_, _, _)

\* json.dumps raises TypeError on a value it cannot serialize
Dumpable(v) ==
    /\ v.t # "object"
    /\ \A i \in 1..Len(v.m) : Dumpable(v.m[i].val)

\* json.dumps(v), for a serializable v
DumpsText(v) ==
    CASE v.t = "str" -> <<Q(v.s)>>
      [] v.t \in {"num", "bool"} -> v.s
      [] v.t = "none" -> <<W("null")>>
      [] v.t = "dict" -> <<LB>> \o DumpMembers(v.m, 1, TRUE) \o <<RB>>
      [] v.t = "list" -> <<LS>> \o DumpMembers(v.m, 1, FALSE) \o <<RS>>
      [] OTHER -> <<>>

DumpMembers(m, i, keyed) ==
    IF i > Len(m) THEN <<>>
    ELSE (IF i > 1 THEN <<COMMA>> ELSE <<>>)
         \o (IF keyed THEN <<Q(m[i].key), COLON>> ELSE <<>>)
         \o DumpsText(m[i].val)
         \o DumpMembers(m, i + 1, keyed)

JsonDumps(v) ==
    IF Dumpable(v) THEN [ok |-> TRUE, txt |-> DumpsText(v)]
    ELSE [ok |-> FALSE, txt |-> <<>>]

(***************************************************************************)
(* The tool catalog: every @mcp.tool() function that calls cpp_sdk_action. *)
(* api and cmd are the api_name and cmd_type it passes, hasArg whether the *)
(* tool takes a parameter record, passes whether params is that record     *)
(* (otherwise params={}), unwrap whether it decodes response["msg"].       *)
(***************************************************************************)
Tool(name, api, cmd, hasArg, passes, unwrap) ==
    name :> [api |-> api, cmd |-> cmd, hasArg |-> hasArg,
             passes |-> passes, unwrap |-> unwrap]

Catalog ==
    Tool("draw_multi_wires", "drawMutiLine", "cpp_sdk_action", TRUE, TRUE, FALSE)
    @@ Tool("draw_multi_buses", "drawBus", "cpp_sdk_action", TRUE, TRUE, FALSE)
    @@ Tool("draw_circle", "drawCircle", "cpp_sdk_action", TRUE, TRUE, FALSE)
    @@ Tool("draw_arc", "drawArc", "cpp_sdk_action", TRUE, TRUE, FALSE)
    @@ Tool("draw_bezier", "drawBezier", "cpp_sdk_action", TRUE, TRUE, FALSE)
    @@ Tool("draw_rectangle", "drawRectangle", "cpp_sdk_action", TRUE, TRUE, FALSE)
    @@ Tool("create_hier_sheet", "drawHierSheet", "cpp_sdk_action", TRUE, TRUE, FALSE)
    @@ Tool("create_class_label", "placeClassLabel", "cpp_sdk_action", TRUE, TRUE, FALSE)
    @@ Tool("create_textbox", "drawTextbox", "cpp_sdk_action", TRUE, TRUE, FALSE)
    @@ Tool("create_common_text", "drawSchematicText", "cpp_sdk_action", TRUE, TRUE, FALSE)
    @@ Tool("create_table", "drawTable", "cpp_sdk_action", TRUE, TRUE, FALSE)
    @@ Tool("create_local_label", "placeLocalLabel", "cpp_sdk_action", TRUE, TRUE, FALSE)
    @@ Tool("create_global_label", "placeGlobalLabel", "cpp_sdk_action", TRUE, TRUE, FALSE)
    @@ Tool("create_hier_label", "placeHierLabel", "cpp_sdk_action", TRUE, TRUE, FALSE)
    @@ Tool("query_symbol_pin", "querySymbolPin", "cpp_sdk_query", TRUE, TRUE, FALSE)
    @@ Tool("query_symbol_library", "getSymbolLibrary", "cpp_sdk_query", FALSE, FALSE, TRUE)
    @@ Tool("place_symbol", "placeSymbol", "cpp_sdk_action", TRUE, TRUE, FALSE)
    @@ Tool("move_symbol", "moveSymbol", "cpp_sdk_action", TRUE, TRUE, FALSE)
    @@ Tool("rotate_symbol", "rotateSymbol", "cpp_sdk_action", TRUE, TRUE, FALSE)
    @@ Tool("modify_symbol_value", "modifySymbolValue", "cpp_sdk_action", TRUE, TRUE, FALSE)
    @@ Tool("modify_symbol_reference", "modifySymbolReference", "cpp_sdk_action", TRUE, TRUE, FALSE)
    @@ Tool("create_symbol_library", "addSymbolLibrary", "cpp_sdk_action", TRUE, TRUE, FALSE)
    @@ Tool("create_symbol_pin", "addLibSymbolPin", "cpp_sdk_action", TRUE, TRUE, FALSE)
    @@ Tool("create_pcb_track", "drawPcbTrack", "cpp_sdk_action", TRUE, TRUE, FALSE)
    @@ Tool("create_pcb_via", "placePcbVia", "cpp_sdk_action", TRUE, TRUE, FALSE)
    @@ Tool("create_pcb_pad", "createPcbPad", "cpp_sdk_action", TRUE, TRUE, FALSE)
    @@ Tool("move_pcb_pad", "movePcbPad", "cpp_sdk_action", TRUE, TRUE, FALSE)
    @@ Tool("rotate_pcb_pad", "rotatePcbPad", "cpp_sdk_action", TRUE, TRUE, FALSE)
    @@ Tool("modify_pcb_pad_number", "modifyPadNumber", "cpp_sdk_action", TRUE, TRUE, FALSE)
    @@ Tool("modify_pcb_pad_size", "modifyPadSize", "cpp_sdk_action", TRUE, TRUE, FALSE)
    @@ Tool("modify_pcb_pad_drill_size", "modifyPadDrillSize", "cpp_sdk_action", TRUE, TRUE, FALSE)
    @@ Tool("modify_pcb_pad_drill_shape", "modifyPadDrillShape", "cpp_sdk_action", TRUE, TRUE, FALSE)
    @@ Tool("set_pcb_pad_new_position", "setPadPosition", "cpp_sdk_action", TRUE, TRUE, FALSE)
    @@ Tool("query_pcb_layer_names", "queryLayerNames", "cpp_sdk_query", FALSE, FALSE, TRUE)
    @@ Tool("query_pcb_all_footprint_info", "queryAllFootprintInfo", "cpp_sdk_query", FALSE, FALSE, TRUE)
    @@ Tool("query_pcb_footprint_info", "queryFootprintInfo", "cpp_sdk_query", TRUE, FALSE, TRUE)
    @@ Tool("move_pcb_footprint", "moveFootprint", "cpp_sdk_action", TRUE, TRUE, FALSE)
    @@ Tool("modify_pcb_footprint_reference", "modifyFootprintReference", "cpp_sdk_action", TRUE, TRUE, FALSE)
    @@ Tool("set_pcb_footprint_position", "setFootprintPosition", "cpp_sdk_action", TRUE, TRUE, FALSE)
    @@ Tool("rotate_pcb_footprint", "rotateFootprint", "cpp_sdk_action", TRUE, TRUE, FALSE)
    @@ Tool("queryCurrentFrameType", "queryCurrentFrameType", "cpp_sdk_query", FALSE, FALSE, TRUE)
    @@ Tool("closeFrame", "closeFrame", "cpp_sdk_action", TRUE, TRUE, FALSE)
    @@ Tool("openFrame", "openFrame", "cpp_sdk_action", TRUE, TRUE, FALSE)
    @@ Tool("saveFrame", "saveFrame", "cpp_sdk_action", FALSE, FALSE, FALSE)

GenericTools == DOMAIN Catalog

\* the tools that call KICAD_CLIENT.cpp_sdk_action with cmd_type="cpp_sdk_query"
QueryTools == {t \in GenericTools : Catalog[t].cmd = "cpp_sdk_query"}

\* the parameter records a caller passes: {}, {"reference": "U3"}, and a
\* value json.dumps cannot serialize
EmptyRecord == PyDict(<<>>)
RefRecord == PyDict(<<KV("reference", PyWord("U3"))>>)
BadRecord == PyDict(<<KV("reference", PyObject)>>)
Args == {EmptyRecord, RefRecord, BadRecord}

\* the params= argument of the tool's cpp_sdk_action call
ToolParams(tool, arg) == IF Catalog[tool].passes THEN arg ELSE EmptyRecord

\* variant: the parameter record itself is the context, and the api name
\* sits beside it
cpp_sdk_action_request_flat(api_name, params, cmd_type) ==
    PyDict(<<KV("cmd", PyWord(cmd_type)),
             KV("params", PyDict(<<
                 KV("action", PyWord(api_name)),
                 KV("context", params)>>))>>)

\* the request dict of cpp_sdk_action
cpp_sdk_action_request(api_name, params, cmd_type) ==
    PyDict(<<KV("cmd", PyWord(cmd_type)),
             KV("params", PyDict(<<
                 KV("action", PyWord("cpp_sdk_api")),
                 KV("context", PyDict(<<
                     KV("api", PyWord(api_name)),
                     KV("parameter", params)>>))>>))>>)

\* logger.error / logger.warning records (info and debug lines are not kept)
Err(msg) == [level |-> "error", msg |-> msg]
Warn(msg) == [level |-> "warning", msg |-> msg]

\* how a function ends: it returns val, or raises exc; log is what it reported
Returned(val, lg) == [kind |-> "returned", val |-> val, exc |-> "", log |-> lg]
Raised(exc, lg) == [kind |-> "raised", val |-> PyNone, exc |-> exc, log |-> lg]
Pending == [kind |-> "pending", val |-> PyNone, exc |-> "", log |-> <<>>]

\* variant: a failure that is not a timeout is swallowed without a report
cpp_sdk_action_except_silent(exc) ==
    IF exc = "Timeout"
    THEN Returned(PyNone, <<Err("Timeout while cpp_sdk")>>)
    ELSE Returned(PyNone, <<>>)

\* variant: one except clause for everything, with the generic report
cpp_sdk_action_except_generic(exc) == Returned(PyNone, <<Err("Failed to cpp_sdk")>>)

\* the two except clauses of cpp_sdk_action
cpp_sdk_action_except(exc) ==
    IF exc = "Timeout"
    THEN Returned(PyNone, <<Err("Timeout while cpp_sdk")>>)
    ELSE Returned(PyNone, <<Err("Failed to cpp_sdk")>>)

\* json.dumps(request).encode() inside the try block
cpp_sdk_action_encode(request) ==
    IF JsonDumps(request).ok THEN Pending
    ELSE cpp_sdk_action_except("TypeError")

\* self.req_socket.send(...): outcome is "ok", "timeout" or "error"
cpp_sdk_action_send(outcome) ==
    CASE outcome = "ok" -> Pending
      [] outcome = "timeout" -> cpp_sdk_action_except("Timeout")
      [] OTHER -> cpp_sdk_action_except("NNGException")

\* variant: json.loads sits outside the try block
cpp_sdk_action_recv_uncaught(outcome, bytes) ==
    CASE outcome = "timeout" -> cpp_sdk_action_except("Timeout")
      [] outcome = "error" -> cpp_sdk_action_except("NNGException")
      [] OTHER ->
            IF ~Utf8Ok(bytes) THEN cpp_sdk_action_except("UnicodeDecodeError")
            ELSE IF ~JsonLoads(bytes).ok THEN Raised("JSONDecodeError", <<>>)
                 ELSE Returned(JsonLoads(bytes).val, <<>>)

\* variant: a reply whose status is "error" is reported and turned into None
cpp_sdk_action_recv_checked(outcome, bytes) ==
    CASE outcome = "timeout" -> cpp_sdk_action_except("Timeout")
      [] outcome = "error" -> cpp_sdk_action_except("NNGException")
      [] OTHER ->
            IF ~Utf8Ok(bytes) THEN cpp_sdk_action_except("UnicodeDecodeError")
            ELSE IF ~JsonLoads(bytes).ok THEN cpp_sdk_action_except("JSONDecodeError")
            ELSE IF /\ JsonLoads(bytes).val.t = "dict"
                    /\ DictGet(JsonLoads(bytes).val, <<W("status")>>) = PyWord("error")
                 THEN cpp_sdk_action_except("RuntimeError")
            ELSE Returned(JsonLoads(bytes).val, <<>>)

\* self.req_socket.recv(), response_data.decode(), json.loads, return response
cpp_sdk_action_recv(outcome, bytes) ==
    CASE outcome = "timeout" -> cpp_sdk_action_except("Timeout")
      [] outcome = "error" -> cpp_sdk_action_except("NNGException")
      [] OTHER ->
            IF ~Utf8Ok(bytes) THEN cpp_sdk_action_except("UnicodeDecodeError")
            ELSE IF ~JsonLoads(bytes).ok
                 THEN cpp_sdk_action_except("JSONDecodeError")
                 ELSE Returned(JsonLoads(bytes).val, <<>>)

RECURSIVE TextContains(_, _)
\* substring test on a str: the word occurs in the text or inside a literal
TextContains(txt, n) ==
    \E i \in 1..Len(txt) :
        \/ txt[i].k = "w" /\ txt[i].n = n
        \/ txt[i].k = "q" /\ TextContains(txt[i].s, n)

\* "msg" in response: membership as Python evaluates it for each type;
\* ok is FALSE where the operator raises TypeError
InMsg(response) ==
    CASE response.t = "dict" ->
            [ok |-> TRUE, has |-> HasKey(response, <<W("msg")>>)]
      [] response.t = "list" ->
            [ok |-> TRUE,
             has |-> \E i \in 1..Len(response.m) : response.m[i].val = PyWord("msg")]
      [] response.t = "str" ->
            [ok |-> TRUE, has |-> TextContains(response.s, "msg")]
      [] OTHER -> [ok |-> FALSE, has |-> FALSE]

\* the tail of the unwrapping query tools:
\*   if "msg" not in response: logger.error("lack msg"); return None
\*   library = json.loads(response["msg"]); return library
UnwrapQuery(response) ==
    IF ~InMsg(response).ok THEN Raised("TypeError", <<>>)
    ELSE IF ~InMsg(response).has THEN Returned(PyNone, <<Err("lack msg")>>)
    ELSE IF response.t # "dict" THEN Raised("TypeError", <<>>)
    ELSE LET msg == DictGet(response, <<W("msg")>>)
         IN IF msg.t # "str" THEN Raised("TypeError", <<>>)
            ELSE IF ~JsonLoads(msg.s).ok THEN Raised("JSONDecodeError", <<>>)
            ELSE Returned(JsonLoads(msg.s).val, <<>>)

\* what the tool does with the value cpp_sdk_action returned
ToolReturn(tool, response) ==
    IF Catalog[tool].unwrap THEN UnwrapQuery(response)
    ELSE Returned(response, <<>>)

\* the check at the top of every generic tool:
\*   if KICAD_CLIENT is None: logger.error("Client not initialized")
\* followed by KICAD_CLIENT.cpp_sdk_action(...), an attribute access on None
ToolGuard(client) ==
    IF client = "None"
    THEN Raised("AttributeError", <<Err("Client not initialized")>>)
    ELSE Pending

\* variant: the check reports but does not return, as in the generic tools
ToolGuardReturn_fallthrough(client) ==
    IF client = "None"
    THEN Raised("AttributeError", <<Err("Client not initialized")>>)
    ELSE Pending

\* the check at the top of get_current_kicad_project and place_all_net_labels:
\*   if KICAD_CLIENT is None: logger.error("Client not initialized"); return
ToolGuardReturn(client) ==
    IF client = "None"
    THEN Returned(PyNone, <<Err("Client not initialized")>>)
    ELSE Pending

(***************************************************************************)
(* Structured markup.  An XML text is a sequence of tokens: the            *)
(* declaration, start tags, end tags, empty-element tags and runs of       *)
(* character data (W).  A start tag or empty-element tag carries its        *)
(* attributes in s.  A parsed node is [x, n, a, kids]: an element "el"     *)
(* with tag n, attributes a and child nodes kids, or character data "txt". *)
(***************************************************************************)
\* <?xml version="1.0" encoding="UTF-8"?> as KiCad writes it
DECL_IN == Tok("?xml", "UTF-8", <<>>)
\* <?xml version='1.0' encoding='utf-8'?> as ET.tostring writes it
DECL_OUT == Tok("?xml", "utf-8", <<>>)
OPEN(n) == Tok("<", n, <<>>)
CLOSE(n) == Tok("</", n, <<>>)
EMPTY(n) == Tok("/>", n, <<>>)
\* name="value" inside a tag
ATTR(n, v) == Tok("attr", n, <<W(v)>>)
\* a start tag and an empty-element tag with attributes
OPENA(n, a) == Tok("<", n, a)
EMPTYA(n, a) == Tok("/>", n, a)
\* <!-- ... -->
COMMENT == Tok("!--", "", <<>>)
\* a run of base64 characters that encodes the bytes s (for the empty s,
\* padding alone)
B64(s) == Tok("b64", "", s)

ElA(n, a, kids) == [x |-> "el", n |-> n, a |-> a, kids |-> kids]
El(n, kids) == ElA(n, <<>>, kids)
TextNode(n) == [x |-> "txt", n |-> n, a |-> <<>>, kids |-> <<>>]

\* an attribute name may occur once in a tag
AttrsOk(a) == \A i, j \in 1..Len(a) : a[i].n = a[j].n => i = j

XmlFail == [ok |-> FALSE, nodes |-> <<>>, rest |-> <<>>]

RECURSIVE XmlContent(_, _)
\* the nodes up to the next unmatched end tag (or the end of the text)
XmlContent(txt, acc) ==
    IF txt = <<>> THEN [ok |-> TRUE, nodes |-> acc, rest |-> <<>>]
    ELSE LET h == Head(txt)
         IN CASE h.k = "w" -> XmlContent(Tail(txt), Append(acc, TextNode(h.n)))
              [] h.k = "!--" -> XmlContent(Tail(txt), acc)
              [] h.k = "/>" ->
                    IF AttrsOk(h.s)
                    THEN XmlContent(Tail(txt), Append(acc, ElA(h.n, h.s, <<>>)))
                    ELSE XmlFail
              [] h.k = "<" ->
                    LET inner == XmlContent(Tail(txt), <<>>)
                    IN IF /\ AttrsOk(h.s)
                          /\ inner.ok /\ inner.rest # <<>> /\ Head(inner.rest) = CLOSE(h.n)
                       THEN XmlContent(Tail(inner.rest),
                                       Append(acc, ElA(h.n, h.s, inner.nodes)))
                       ELSE XmlFail
              [] h.k = "</" -> [ok |-> TRUE, nodes |-> acc, rest |-> txt]
              [] OTHER -> XmlFail

\* ET.fromstring: an optional declaration, then exactly one root element
XmlParse(txt) ==
    LET body == IF txt # <<>> /\ Head(txt).k = "?xml" THEN Tail(txt) ELSE txt
        c == XmlContent(body, <<>>)
    IN IF c.ok /\ c.rest = <<>> /\ Len(c.nodes) = 1 /\ c.nodes[1].x = "el"
       THEN [ok |-> TRUE, root |-> c.nodes[1]]
       ELSE [ok |-> FALSE, root |-> El("", <<>>)]

\* variant: the first child is taken for the section whatever its tag
XmlFind_any(root, tag) == IF root.kids = <<>> THEN 0 ELSE 1

\* root.find("nets"): the index of the first child element with that tag, or 0
XmlFind(root, tag) ==
    LET hits == {i \in 1..Len(root.kids) :
                    root.kids[i].x = "el" /\ root.kids[i].n = tag}
    IN IF hits = {} THEN 0
       ELSE CHOOSE i \in hits : \A j \in hits : i <= j

\* variant: the child is looked up but never removed
XmlRemove_keep(root, i) == root

\* root.remove(child): the child goes, and with it its tail, the character
\* data that follows it
XmlRemove(root, i) ==
    LET tail == IF i < Len(root.kids) /\ root.kids[i + 1].x = "txt" THEN 1 ELSE 0
    IN [root EXCEPT !.kids = SubSeq(root.kids, 1, i - 1)
                             \o SubSeq(root.kids, i + 1 + tail, Len(root.kids))]

RECURSIVE XmlSerialize(_), XmlSerializeAll(_, _)
\* ET's serializer: an element without content becomes an empty-element tag
XmlSerialize(node) ==
    IF node.x = "txt" THEN <<W(node.n)>>
    ELSE IF node.kids = <<>> THEN <<EMPTYA(node.n, node.a)>>
    ELSE <<OPENA(node.n, node.a)>> \o XmlSerializeAll(node.kids, 1)
         \o <<CLOSE(node.n)>>

XmlSerializeAll(kids, i) ==
    IF i > Len(kids) THEN <<>>
    ELSE XmlSerialize(kids[i]) \o XmlSerializeAll(kids, i + 1)

\* ET.tostring(root, encoding="utf-8", xml_declaration=True).decode("utf-8")
XmlToString(root) == <<DECL_OUT>> \o XmlSerialize(root)

RECURSIVE B64Payload(_)
B64Payload(txt) ==
    IF txt = <<>> THEN <<>>
    ELSE (IF Head(txt).k = "b64" THEN Head(txt).s ELSE <<>>) \o B64Payload(Tail(txt))

\* base64.b64decode(s): characters outside the alphabet are discarded, a run
\* of plain word characters is not correctly padded base64
B64Decode(txt) ==
    IF \E i \in 1..Len(txt) : txt[i].k \in {"w", "q"}
    THEN [ok |-> FALSE, bytes |-> <<>>]
    ELSE [ok |-> TRUE, bytes |-> B64Payload(txt)]

\* Python truth value: "if not netlist"
Falsy(v) ==
    \/ v.t = "none"
    \/ v.t = "str" /\ v.s = <<>>
    \/ v.t = "num" /\ v.s = <<W("0")>>
    \/ v.t = "bool" /\ v.s = <<W("false")>>
    \/ v.t \in {"dict", "list"} /\ v.m = <<>>

\* variant: the netlist query goes out in the generic envelope, as a call of
\* cpp_sdk_action would build it
get_netlist_request_generic == cpp_sdk_action_request("netlist", EmptyRecord, "cpp_sdk_query")

\* the request dict of get_netlist
get_netlist_request == PyDict(<<KV("cmd", PyWord("netlist"))>>)

\* variant: a failure ends in the empty text, without a report
get_netlist_except_text(exc) == Returned(PyStr(<<>>), <<>>)

\* the two outer except clauses of get_netlist
get_netlist_except(exc) ==
    IF exc = "Timeout"
    THEN Returned(PyNone, <<Err("Timeout while calling netlist command")>>)
    ELSE Returned(PyNone, <<Err("Request failed")>>)

\* variant: on ET.ParseError the method reports and returns None
get_netlist_clean_absent(xml_content) ==
    LET p == XmlParse(xml_content)
    IN IF ~p.ok THEN Returned(PyNone, <<Err("XML parsing failed")>>)
       ELSE LET i == XmlFind(p.root, "nets")
                root == IF i # 0 THEN XmlRemove(p.root, i) ELSE p.root
            IN Returned(PyStr(XmlToString(root)), <<>>)

\* the inner try block of get_netlist: parse, drop the nets section,
\* serialize; on ET.ParseError return xml_content
get_netlist_clean(xml_content) ==
    LET p == XmlParse(xml_content)
    IN IF ~p.ok THEN Returned(PyStr(xml_content), <<Err("XML parsing failed")>>)
       ELSE LET i == XmlFind(p.root, "nets")
                root == IF i # 0 THEN XmlRemove(p.root, i) ELSE p.root
            IN Returned(PyStr(XmlToString(root)), <<>>)

\* variant: the payload is read from response["msg"] instead of the reply's
\* top level
get_netlist_decode_msg(response) ==
    IF response.t # "dict" \/ DictGet(response, <<W("msg")>>).t # "dict"
    THEN get_netlist_except("AttributeError")
    ELSE LET netlist == DictGet(DictGet(response, <<W("msg")>>), <<W("net_list")>>)
         IN IF Falsy(netlist)
            THEN Returned(PyNone, <<Warn("No net_list found in response")>>)
            ELSE IF netlist.t # "str" THEN get_netlist_except("TypeError")
            ELSE IF ~B64Decode(netlist.s).ok THEN get_netlist_except("binascii.Error")
            ELSE IF ~Utf8Ok(B64Decode(netlist.s).bytes)
                 THEN get_netlist_except("UnicodeDecodeError")
            ELSE get_netlist_clean(B64Decode(netlist.s).bytes)

\* variant: the payload is decoded without the "if not netlist" check
get_netlist_decode_unchecked(response) ==
    IF response.t # "dict" THEN get_netlist_except("AttributeError")
    ELSE LET netlist == DictGet(response, <<W("net_list")>>)
         IN IF netlist.t # "str" THEN get_netlist_except("TypeError")
            ELSE IF ~B64Decode(netlist.s).ok THEN get_netlist_except("binascii.Error")
            ELSE IF ~Utf8Ok(B64Decode(netlist.s).bytes)
                 THEN get_netlist_except("UnicodeDecodeError")
            ELSE get_netlist_clean(B64Decode(netlist.s).bytes)

\* variant: a payload that cannot be decoded is returned as it came
get_netlist_decode_raw(response) ==
    IF response.t # "dict" THEN get_netlist_except("AttributeError")
    ELSE LET netlist == DictGet(response, <<W("net_list")>>)
         IN IF Falsy(netlist)
            THEN Returned(PyNone, <<Warn("No net_list found in response")>>)
            ELSE IF netlist.t # "str" THEN get_netlist_except("TypeError")
            ELSE IF ~B64Decode(netlist.s).ok
                 THEN Returned(netlist, <<Err("Request failed")>>)
            ELSE IF ~Utf8Ok(B64Decode(netlist.s).bytes)
                 THEN Returned(netlist, <<Err("Request failed")>>)
            ELSE get_netlist_clean(B64Decode(netlist.s).bytes)

\* response.get("net_list"), the "if not netlist" check, and
\* base64.b64decode(netlist).decode("utf-8")
get_netlist_decode(response) ==
    IF response.t # "dict" THEN get_netlist_except("AttributeError")
    ELSE LET netlist == DictGet(response, <<W("net_list")>>)
         IN IF Falsy(netlist)
            THEN Returned(PyNone, <<Warn("No net_list found in response")>>)
            ELSE IF netlist.t # "str" THEN get_netlist_except("TypeError")
            ELSE IF ~B64Decode(netlist.s).ok THEN get_netlist_except("binascii.Error")
            ELSE IF ~Utf8Ok(B64Decode(netlist.s).bytes)
                 THEN get_netlist_except("UnicodeDecodeError")
            ELSE get_netlist_clean(B64Decode(netlist.s).bytes)

\* self.req_socket.send(...) in get_netlist
get_netlist_send(outcome) ==
    CASE outcome = "ok" -> Pending
      [] outcome = "timeout" -> get_netlist_except("Timeout")
      [] OTHER -> get_netlist_except("NNGException")

\* variant: only the timeout has an except clause
get_netlist_recv_uncaught(outcome, bytes) ==
    CASE outcome = "timeout" -> get_netlist_except("Timeout")
      [] outcome = "error" -> Raised("NNGException", <<>>)
      [] OTHER ->
            IF ~Utf8Ok(bytes) THEN Raised("UnicodeDecodeError", <<>>)
            ELSE IF ~JsonLoads(bytes).ok THEN Raised("JSONDecodeError", <<>>)
            ELSE get_netlist_decode(JsonLoads(bytes).val)

\* self.req_socket.recv(), json.loads(response_data.decode()) and the rest
get_netlist_recv(outcome, bytes) ==
    CASE outcome = "timeout" -> get_netlist_except("Timeout")
      [] outcome = "error" -> get_netlist_except("NNGException")
      [] OTHER ->
            IF ~Utf8Ok(bytes) THEN get_netlist_except("UnicodeDecodeError")
            ELSE IF ~JsonLoads(bytes).ok THEN get_netlist_except("JSONDecodeError")
            ELSE get_netlist_decode(JsonLoads(bytes).val)

(***************************************************************************)
(* What the remote side can answer.                                        *)
(***************************************************************************)
\* <export><design /><nets><net /></nets></export>
DocOneNets ==
    <<OPEN("export"), EMPTY("design"), OPEN("nets"), EMPTY("net"), CLOSE("nets"),
      CLOSE("export")>>
\* the same with a declaration, an expanded empty element and character data
DocDeclNets ==
    <<DECL_IN, OPEN("export"), OPEN("design"), CLOSE("design"), W("a"),
      OPEN("nets"), EMPTY("net"), CLOSE("nets"), W("b"), CLOSE("export")>>
\* no nets section
DocNoNets == <<OPEN("export"), OPEN("design"), CLOSE("design"), CLOSE("export")>>
\* two nets sections below the root
DocTwoNets ==
    <<OPEN("export"), EMPTY("nets"), EMPTY("design"), EMPTY("nets"), CLOSE("export")>>
\* a nets section that is not a child of the root
DocNestedNets ==
    <<OPEN("export"), OPEN("sheet"), EMPTY("nets"), CLOSE("sheet"), CLOSE("export")>>
\* the root itself is the nets element
DocRootNets == <<OPEN("nets"), EMPTY("net"), CLOSE("nets")>>
\* not well-formed: the nets start tag is never closed
DocUnclosed == <<OPEN("export"), OPEN("nets"), CLOSE("export")>>
\* not markup at all
DocPlainText == <<W("hello")>>
\* no nets section; a comment, attributes, character data, an empty element
DocAttrNoNets ==
    <<DECL_IN, COMMENT,
      OPENA("export", <<ATTR("version", "E")>>),
      OPENA("comp", <<ATTR("ref", "R1"), ATTR("value", "10k")>>), W("x"), CLOSE("comp"),
      COMMENT, OPEN("design"), CLOSE("design"), W("y"), EMPTYA("sheet", <<ATTR("number", "1")>>),
      CLOSE("export")>>
\* attributes on the root and on the nets section
DocAttrNets ==
    <<OPENA("export", <<ATTR("version", "E")>>), EMPTYA("comp", <<ATTR("ref", "R1")>>),
      OPENA("nets", <<ATTR("count", "1")>>), EMPTYA("net", <<ATTR("name", "GND")>>),
      CLOSE("nets"), CLOSE("export")>>
\* not well-formed: an attribute given twice
DocDupAttr == <<EMPTYA("export", <<ATTR("version", "E"), ATTR("version", "D")>>)>>
\* the empty text
DocEmpty == <<>>

WellFormedDocs ==
    {DocOneNets, DocDeclNets, DocNoNets, DocTwoNets, DocNestedNets, DocRootNets,
     DocAttrNoNets, DocAttrNets}
MalformedDocs == {DocUnclosed, DocPlainText, DocDupAttr, DocEmpty}
XmlDocs == WellFormedDocs \cup MalformedDocs

\* the text of a JSON string holding the base64 encoding of bytes
B64Str(bytes) == PyStr(<<B64(bytes)>>)

\* {"status": ..., "msg": ...}
Envelope(status, msg) == PyDict(<<KV("status", PyWord(status)), KV("msg", msg)>>)

\* the nested encoded payload {"library_list":[{"symbol_library_name":"R_0805"}]}
LibraryList ==
    PyDict(<<KV("library_list",
                PyList(<<Item(PyDict(<<KV("symbol_library_name", PyWord("R_0805"))>>))>>))>>)

\* the reply of the netlist command for a document: {"net_list": "<base64>"}
NetlistReply(doc) == PyDict(<<KV("net_list", B64Str(doc))>>)
\* the same payload below msg, inside a response envelope
NetlistInMsg(doc) == Envelope("ok", NetlistReply(doc))

ReplyValues ==
    {Envelope("ok", PyWord("ok")),
     Envelope("ok", PyStr(DumpsText(LibraryList))),
     Envelope("error", PyWord("msg")),
     Envelope("ok", PyNum("1")),
     PyDict(<<KV("status", PyWord("error"))>>),
     PyDict(<<KV("msg", PyStr(DumpsText(LibraryList)))>>),
     PyDict(<<>>),
     PyList(<<Item(PyWord("msg"))>>),
     PyList(<<>>),
     PyWord("msg"),
     PyNum("1"),
     PyNone,
     NetlistInMsg(DocOneNets),
     PyDict(<<KV("net_list", PyStr(<<>>))>>),
     PyDict(<<KV("net_list", PyWord("ok"))>>),
     PyDict(<<KV("net_list", PyNum("5"))>>),
     PyDict(<<KV("net_list", B64Str(<<XFF>>))>>)}
    \cup {NetlistReply(doc) : doc \in XmlDocs}

\* the reply bytes: the encodings of the values above, a truncated JSON text,
\* and bytes that are not UTF-8
ReplyBytes ==
    {DumpsText(v) : v \in ReplyValues} \cup {<<LB, QW("status")>>, <<XFF>>}

SocketUrls == {"ipc:///tmp/kicad_sdk.ipc"}

(***************************************************************************)
(* place_all_net_labels and KiCadClient.place_net_label.                   *)
(***************************************************************************)
\* the net records a caller passes: a complete one, one without net_name,
\* and one json.dumps cannot serialize
GoodNet ==
    PyDict(<<KV("net_name", PyWord("GND")),
             KV("pins", PyList(<<Item(PyDict(<<KV("designator", PyWord("R1")),
                                               KV("pin_num", PyNum("1"))>>))>>))>>)
NoNameNet == PyDict(<<KV("pins", PyList(<<>>))>>)
BadNet == PyDict(<<KV("net_name", PyWord("VCC")), KV("pins", PyObject)>>)
NetRecords == {GoodNet, NoNameNet, BadNet}

\* the longest nets list a caller passes
MaxNets == 2

RECURSIVE SeqsUpTo(_, _)
\* the sequences over S of length at most n
SeqsUpTo(S, n) ==
    IF n = 0 THEN {<<>>}
    ELSE LET shorter == SeqsUpTo(S, n - 1)
         IN shorter \cup {Append(q, x) : q \in shorter, x \in S}

RECURSIVE AsItems(_)
AsItems(q) == IF q = <<>> THEN <<>> ELSE <<Item(Head(q))>> \o AsItems(Tail(q))

\* the API_PLACE_NETLABELS arguments: {"nets": [...]}
NetsArgs == {PyDict(<<KV("nets", PyList(AsItems(q)))>>) : q \in SeqsUpTo(NetRecords, MaxNets)}

\* the request dict of place_net_label
place_net_label_request(net_params) ==
    PyDict(<<KV("cmd", PyWord("placeNetLabels")),
             KV("params", PyDict(<<
                 KV("action", PyWord("place_netlabels")),
                 KV("context", net_params)>>))>>)

\* the two except clauses of place_net_label; their messages evaluate
\* net_params['net_name'] again
place_net_label_except(exc, net_params) ==
    IF ~HasKey(net_params, <<W("net_name")>>) THEN Raised("KeyError", <<>>)
    ELSE IF exc = "Timeout"
         THEN Returned(PyNone, <<Err("Timeout while placing net")>>)
         ELSE Returned(PyNone, <<Err("Failed to place net")>>)

\* net_params["net_name"], the request dict, json.dumps(request).encode()
place_net_label_encode(net_params) ==
    IF ~HasKey(net_params, <<W("net_name")>>)
    THEN place_net_label_except("KeyError", net_params)
    ELSE IF ~JsonDumps(place_net_label_request(net_params)).ok
         THEN place_net_label_except("TypeError", net_params)
         ELSE Pending

\* self.req_socket.send(...) in place_net_label
place_net_label_send(outcome, net_params) ==
    CASE outcome = "ok" -> Pending
      [] outcome = "timeout" -> place_net_label_except("Timeout", net_params)
      [] OTHER -> place_net_label_except("NNGException", net_params)

\* self.req_socket.recv() and json.loads(response_data.decode())
place_net_label_recv(outcome, bytes, net_params) ==
    CASE outcome = "timeout" -> place_net_label_except("Timeout", net_params)
      [] outcome = "error" -> place_net_label_except("NNGException", net_params)
      [] OTHER ->
            IF ~Utf8Ok(bytes)
            THEN place_net_label_except("UnicodeDecodeError", net_params)
            ELSE IF ~JsonLoads(bytes).ok
                 THEN place_net_label_except("JSONDecodeError", net_params)
                 ELSE Returned(PyNone, <<>>)

RECURSIVE place_all_net_labels_loop(_, _)
\* for net_params in nets["nets"]: KICAD_CLIENT.place_net_label(net_params),
\* run from the entries q that are left up to the next send, the end of the
\* list, or an exception; lg is what the entries passed on the way reported
place_all_net_labels_loop(q, lg) ==
    IF q = <<>>
    THEN [pc |-> "done", queue |-> q, log |-> lg, d |-> Pending,
          result |-> Returned(PyNone, <<>>)]
    ELSE LET e == place_net_label_encode(Head(q).val)
         IN CASE e.kind = "pending" ->
                    [pc |-> "send", queue |-> q, log |-> lg, d |-> Pending,
                     result |-> Pending]
              [] e.kind = "raised" ->
                    [pc |-> "done", queue |-> q, log |-> lg \o e.log, d |-> e,
                     result |-> Raised(e.exc, <<>>)]
              [] OTHER -> place_all_net_labels_loop(Tail(q), lg \o e.log)

(***************************************************************************)
(* The control flow around the socket.                                     *)
(***************************************************************************)
\* variant: a send that timed out is issued again
AfterSend_retry(outcome) ==
    IF outcome = "ok" THEN "recv" ELSE IF outcome = "timeout" THEN "send" ELSE "done"

\* variant: the method returns as soon as the request is sent
AfterSend_async(outcome) == "done"

\* variant: recv is called whether or not the send went through
AfterSend_always(outcome) == "recv"

\* where a client method goes after req_socket.send: on to recv, or out of
\* the try block through an except clause; there is no loop around the send
AfterSend(outcome) == IF outcome = "ok" THEN "recv" ELSE "done"

\* variant: the socket is closed when an exchange times out
SocketAfter_close(sock, outcome) ==
    IF outcome = "timeout" THEN [sock EXCEPT !.state = "closed"] ELSE sock

\* variant: after a transport error the client dials a fresh socket
SocketAfter_redial(sock, outcome) ==
    IF outcome = "error" THEN [sock EXCEPT !.socket_url = "redialed"] ELSE sock

\* variant: after a timeout the client doubles the receive timeout
SocketAfter_backoff(sock, outcome) ==
    IF outcome = "timeout" THEN [sock EXCEPT !.recv_timeout = 60000] ELSE sock

\* the socket after a send or a recv: no except clause closes or redials it
SocketAfter(sock, outcome) == sock

\* variant: tool functions run on worker threads, a call starts at any time
Runnable_threaded(p) == TRUE

\* the tools are plain (not async) functions: the server's event loop runs
\* one to its end before it starts the next
Runnable(p) == p = "idle"

\* the library calls get_netlist makes after json.loads, in order
get_netlist_calls(response) ==
    IF response.t # "dict" THEN <<>>
    ELSE LET netlist == DictGet(response, <<W("net_list")>>)
         IN IF Falsy(netlist) THEN <<>>
            ELSE IF netlist.t # "str" \/ ~B64Decode(netlist.s).ok
                 THEN <<"b64decode">>
            ELSE IF ~Utf8Ok(B64Decode(netlist.s).bytes)
                 THEN <<"b64decode", "decode">>
            ELSE IF ~XmlParse(B64Decode(netlist.s).bytes).ok
                 THEN <<"b64decode", "decode", "ET.fromstring">>
            ELSE <<"b64decode", "decode", "ET.fromstring", "ET.tostring">>

\* return KICAD_CLIENT.get_netlist() in get_current_kicad_project
NetlistToolReturn(d) ==
    IF d.kind = "raised" THEN Raised(d.exc, <<>>) ELSE Returned(d.val, <<>>)

(***************************************************************************)
(* The state of the process.                                               *)
(***************************************************************************)
VARIABLES
    phase,          \* "start", "serving" (mcp.run) or "exited"
    KICAD_CLIENT,   \* the global: "None" or "KiCadClient"
    req_socket,     \* the client's pynng.Req0 socket
    outstanding,    \* requests sent on the socket whose recv has not ended
    prev,           \* how the recv of the previous tool call ended
    pc,             \* where the tool call in progress is: idle, send, recv, done
    call,           \* the tool call in progress: tool, arg, and the client method
    queue,          \* place_all_net_labels: the entries of nets not yet done
    request,        \* the request dict built by the client method
    wire,           \* the byte strings this tool call sent on the socket
    sends,          \* the number of send() calls of this client method call
    sent,           \* how its send ended: "", "ok", "timeout", "error"
    reply,          \* how its recv ended, and the bytes it returned
    recvs,          \* the number of recv() calls of this client method call
    steps,          \* the library calls get_netlist made after json.loads
    log,            \* the error and warning reports of this tool call
    dispatched,     \* how the client method ended
    result,         \* how the tool function ended
    dialed,         \* how the dial of __init__ ended: "", connected, refused, invalid
    late,           \* a reply to a request whose recv timed out may still arrive
    replyOf,        \* the request the reply last received answers: "", own, late
    closes,         \* the number of times __del__ has run
    disposed,       \* how the last __del__ ended
    hist            \* the query call before this one, where it is remembered

vars == <<phase, KICAD_CLIENT, req_socket, outstanding, prev, pc, call, queue,
          request, wire, sends, sent, reply, recvs, steps, log, dispatched, result,
          dialed, late, replyOf, closes, disposed, hist>>

NoSocket == [socket_url |-> "", recv_timeout |-> 0, send_timeout |-> 0,
             state |-> "none"]
NoCall == [tool |-> "", arg |-> PyNone, proc |-> ""]
NoReply == [outcome |-> "", bytes |-> <<>>]
NoHist == [tool |-> "", arg |-> PyNone, bytes |-> <<>>, wire |-> <<>>,
           result |-> Pending]

\* module load: KICAD_CLIENT: KiCadClient | None = None
Init ==
    /\ phase = "start"
    /\ KICAD_CLIENT = "None"
    /\ req_socket = NoSocket
    /\ outstanding = 0
    /\ prev = ""
    /\ pc = "idle"
    /\ call = NoCall
    /\ queue = <<>>
    /\ request = PyNone
    /\ wire = <<>>
    /\ sends = 0
    /\ sent = ""
    /\ reply = NoReply
    /\ recvs = 0
    /\ steps = <<>>
    /\ log = <<>>
    /\ dispatched = Pending
    /\ result = Pending
    /\ dialed = ""
    /\ late = FALSE
    /\ replyOf = ""
    /\ closes = 0
    /\ disposed = Pending
    /\ hist = NoHist

callVars == <<pc, call, queue, request, wire, sends, sent, reply, recvs, steps,
              log, dispatched, result>>

\* KiCadClient.__init__: Req0(recv_timeout=30000, send_timeout=30000), dial
KiCadClient_init(socket_url) ==
    [socket_url |-> socket_url, recv_timeout |-> 30000, send_timeout |-> 30000,
     state |-> "open"]

\* self.req_socket.dial(socket_url), with pynng's default block=None: a
\* refused connection is logged and the dial goes on in the background, any
\* other failure (an address that is not valid) raises
DialOutcomes == {"connected", "refused", "invalid"}
KiCadClient_dial(dial) ==
    IF dial = "invalid" THEN Raised("NNGException", <<>>) ELSE Returned(PyNone, <<>>)

\* __main__: KICAD_CLIENT = KiCadClient(args.socket_url); mcp.run(...).
\* When __init__ raises, the exception ends the process before mcp.run.
Main(socket_url, dial) ==
    /\ phase = "start"
    /\ dialed' = dial
    /\ req_socket' = KiCadClient_init(socket_url)
    /\ IF KiCadClient_dial(dial).kind = "returned"
       THEN /\ KICAD_CLIENT' = "KiCadClient"
            /\ phase' = "serving"
       ELSE /\ KICAD_CLIENT' = "None"
            /\ phase' = "exited"
    /\ UNCHANGED <<outstanding, prev, late, replyOf, closes, disposed, hist>>
    /\ UNCHANGED callVars

\* the module is imported by a host that serves the registered tools: the
\* __main__ block does not run and KICAD_CLIENT stays None
Imported ==
    /\ phase = "start"
    /\ phase' = "serving"
    /\ UNCHANGED <<KICAD_CLIENT, req_socket, outstanding, prev, dialed, late,
                   replyOf, closes, disposed, hist>>
    /\ UNCHANGED callVars

\* mcp.run returns (the caller closed stdin) and the process goes down
Exit ==
    /\ phase = "serving"
    /\ pc = "idle"
    /\ phase' = "exited"
    /\ UNCHANGED <<KICAD_CLIENT, req_socket, outstanding, prev, dialed, late,
                   replyOf, closes, disposed, hist>>
    /\ UNCHANGED callVars

\* the most often __del__ is run on the client
MaxCloses == 2

\* variant: closing a socket that is closed already raises
KiCadClient_del_strict(sock) ==
    IF sock.state = "open"
    THEN [sock |-> [sock EXCEPT !.state = "closed"], out |-> Returned(PyNone, <<>>)]
    ELSE [sock |-> sock, out |-> Raised("Closed", <<>>)]

\* KiCadClient.__del__: self.req_socket.close() inside try/except Exception;
\* close() on a closed socket does nothing, a missing attribute is reported
KiCadClient_del(sock) ==
    IF sock.state = "none"
    THEN [sock |-> sock, out |-> Returned(PyNone, <<Err("AttributeError")>>)]
    ELSE [sock |-> [sock EXCEPT !.state = "closed"], out |-> Returned(PyNone, <<>>)]

\* the client object is finalized when the process goes down: after
\* mcp.run returned, or while the exception of __init__ unwinds
Del ==
    /\ phase = "exited"
    /\ req_socket # NoSocket
    /\ closes < MaxCloses
    /\ closes' = closes + 1
    /\ req_socket' = KiCadClient_del(req_socket).sock
    /\ disposed' = KiCadClient_del(req_socket).out
    /\ UNCHANGED <<phase, KICAD_CLIENT, outstanding, prev, dialed, late, replyOf,
                   hist>>
    /\ UNCHANGED callVars

\* the replies that can arrive while a call waits in recv
ReplySources(l) == IF l THEN {"own", "late"} ELSE {"own"}

\* variant: the socket hands over whatever reply arrives next
Req0Delivers_any(src) == TRUE

\* the REQ protocol of the Req0 socket: a reply is handed to recv only if it
\* answers the request outstanding; a reply to an earlier request is dropped
Req0Delivers(src) == src = "own"

\* recv returned: which request its reply answers, and whether a reply to
\* this request may still come after a timeout
Received(outcome) ==
    /\ late' = (late \/ outcome = "timeout")
    /\ \E src \in ReplySources(late) :
          /\ Req0Delivers(src)
          /\ replyOf' = IF outcome = "reply" THEN src ELSE replyOf

\* variant: the client remembers that a call came before, and hands the
\* result only to the first one
Finish_once(d, r) ==
    /\ dispatched' = d
    /\ result' = IF prev = "" THEN r ELSE Returned(PyNone, <<>>)
    /\ log' = log \o d.log \o r.log

\* the client method ended as d, the tool function as r
Finish(d, r) ==
    /\ dispatched' = d
    /\ result' = r
    /\ log' = log \o d.log \o r.log

\* a tool call begins: nothing of the call before it is left
Fresh ==
    /\ wire' = <<>>
    /\ sends' = 0
    /\ sent' = ""
    /\ reply' = NoReply
    /\ recvs' = 0
    /\ steps' = <<>>
    /\ replyOf' = ""

\* the outcomes req_socket.send can have on this socket
SendPossible(outcome) == req_socket.state = "open" \/ outcome = "error"

\* a generic tool is called: the None check, then cpp_sdk_action up to send
Invoke(tool, arg) ==
    /\ phase = "serving"
    /\ Runnable(pc)
    /\ call' = [tool |-> tool, arg |-> arg, proc |-> "cpp_sdk_action"]
    /\ LET g == ToolGuard(KICAD_CLIENT)
           req == cpp_sdk_action_request(Catalog[tool].api, ToolParams(tool, arg),
                                         Catalog[tool].cmd)
           e == cpp_sdk_action_encode(req)
       IN IF g.kind = "raised"
          THEN /\ pc' = "done"
               /\ result' = g
               /\ log' = g.log
               /\ request' = PyNone
               /\ dispatched' = Pending
          ELSE /\ request' = req
               /\ IF e.kind = "pending"
                  THEN /\ pc' = "send"
                       /\ log' = g.log
                       /\ dispatched' = Pending
                       /\ result' = Pending
                  ELSE /\ pc' = "done"
                       /\ dispatched' = e
                       /\ result' = ToolReturn(tool, e.val)
                       /\ log' = g.log \o e.log \o ToolReturn(tool, e.val).log
    /\ Fresh
    /\ queue' = <<>>
    /\ UNCHANGED <<phase, KICAD_CLIENT, req_socket, outstanding, prev, dialed, late,
                   closes, disposed, hist>>

\* self.req_socket.send(json.dumps(request).encode()) in cpp_sdk_action
Send(outcome) ==
    /\ pc = "send"
    /\ call.proc = "cpp_sdk_action"
    /\ SendPossible(outcome)
    /\ sent' = outcome
    /\ sends' = sends + 1
    /\ pc' = AfterSend(outcome)
    /\ req_socket' = SocketAfter(req_socket, outcome)
    /\ LET d == cpp_sdk_action_send(outcome)
       IN IF d.kind = "pending"
          THEN /\ wire' = Append(wire, JsonDumps(request).txt)
               /\ outstanding' = outstanding + 1
               /\ UNCHANGED <<dispatched, result, log>>
          ELSE /\ Finish(d, ToolReturn(call.tool, d.val))
               /\ UNCHANGED <<wire, outstanding>>
    /\ UNCHANGED <<phase, KICAD_CLIENT, prev, call, queue, request, reply, recvs,
                   steps, dialed, late, replyOf, closes, disposed, hist>>

\* self.req_socket.recv() in cpp_sdk_action and everything after it
Recv(outcome, bytes) ==
    /\ pc = "recv"
    /\ call.proc = "cpp_sdk_action"
    /\ reply' = [outcome |-> outcome, bytes |-> bytes]
    /\ recvs' = recvs + 1
    /\ outstanding' = 0
    /\ pc' = "done"
    /\ req_socket' = SocketAfter(req_socket, outcome)
    /\ LET d == cpp_sdk_action_recv(outcome, bytes)
       IN Finish(d, ToolReturn(call.tool, d.val))
    /\ Received(outcome)
    /\ UNCHANGED <<phase, KICAD_CLIENT, prev, call, queue, request, wire, sends,
                   sent, steps, dialed, closes, disposed, hist>>

\* get_current_kicad_project is called: the None check, then get_netlist
\* up to send
InvokeNetlist ==
    /\ phase = "serving"
    /\ Runnable(pc)
    /\ call' = [tool |-> "get_current_kicad_project", arg |-> PyNone,
                proc |-> "get_netlist"]
    /\ IF ToolGuardReturn(KICAD_CLIENT).kind # "pending"
       THEN /\ pc' = "done"
            /\ result' = ToolGuardReturn(KICAD_CLIENT)
            /\ log' = ToolGuardReturn(KICAD_CLIENT).log
            /\ request' = PyNone
       ELSE /\ request' = get_netlist_request
            /\ pc' = "send"
            /\ result' = Pending
            /\ log' = <<>>
    /\ dispatched' = Pending
    /\ Fresh
    /\ queue' = <<>>
    /\ UNCHANGED <<phase, KICAD_CLIENT, req_socket, outstanding, prev, dialed, late,
                   closes, disposed, hist>>

\* self.req_socket.send(json.dumps(request).encode()) in get_netlist
SendNetlist(outcome) ==
    /\ pc = "send"
    /\ call.proc = "get_netlist"
    /\ SendPossible(outcome)
    /\ sent' = outcome
    /\ sends' = sends + 1
    /\ pc' = AfterSend(outcome)
    /\ req_socket' = SocketAfter(req_socket, outcome)
    /\ LET d == get_netlist_send(outcome)
       IN IF d.kind = "pending"
          THEN /\ wire' = Append(wire, JsonDumps(request).txt)
               /\ outstanding' = outstanding + 1
               /\ UNCHANGED <<dispatched, result, log>>
          ELSE /\ Finish(d, NetlistToolReturn(d))
               /\ UNCHANGED <<wire, outstanding>>
    /\ UNCHANGED <<phase, KICAD_CLIENT, prev, call, queue, request, reply, recvs,
                   steps, dialed, late, replyOf, closes, disposed, hist>>

\* self.req_socket.recv() in get_netlist and everything after it
RecvNetlist(outcome, bytes) ==
    /\ pc = "recv"
    /\ call.proc = "get_netlist"
    /\ reply' = [outcome |-> outcome, bytes |-> bytes]
    /\ recvs' = recvs + 1
    /\ outstanding' = 0
    /\ pc' = "done"
    /\ req_socket' = SocketAfter(req_socket, outcome)
    /\ steps' = IF outcome = "reply" /\ Utf8Ok(bytes) /\ JsonLoads(bytes).ok
                THEN get_netlist_calls(JsonLoads(bytes).val)
                ELSE <<>>
    /\ LET d == get_netlist_recv(outcome, bytes)
       IN Finish(d, NetlistToolReturn(d))
    /\ Received(outcome)
    /\ UNCHANGED <<phase, KICAD_CLIENT, prev, call, queue, request, wire, sends,
                   sent, dialed, closes, disposed, hist>>

\* the loop of place_all_net_labels goes on from the entries q: it stops
\* before the next send, at the end of the list, or on an exception; last
\* holds sends, sent, reply, recvs and request as the method call before left them
LabelsGoOn(q, lg, last) ==
    LET n == place_all_net_labels_loop(q, lg)
    IN /\ pc' = n.pc
       /\ queue' = n.queue
       /\ log' = n.log
       /\ result' = n.result
       /\ dispatched' = n.d
       /\ IF n.pc = "send"
          THEN /\ request' = place_net_label_request(Head(n.queue).val)
               /\ sends' = 0
               /\ sent' = ""
               /\ reply' = NoReply
               /\ recvs' = 0
          ELSE /\ request' = last.request
               /\ sends' = last.sends
               /\ sent' = last.sent
               /\ reply' = last.reply
               /\ recvs' = last.recvs

\* place_all_net_labels is called: the None check, then the loop up to the
\* first send
InvokeLabels(nets) ==
    /\ phase = "serving"
    /\ Runnable(pc)
    /\ call' = [tool |-> "place_all_net_labels", arg |-> nets,
                proc |-> "place_net_label"]
    /\ wire' = <<>>
    /\ steps' = <<>>
    /\ replyOf' = ""
    /\ LET none == [request |-> PyNone, sends |-> 0, sent |-> "",
                    reply |-> NoReply, recvs |-> 0]
       IN IF ToolGuardReturn(KICAD_CLIENT).kind # "pending"
          THEN /\ pc' = "done"
               /\ result' = ToolGuardReturn(KICAD_CLIENT)
               /\ log' = ToolGuardReturn(KICAD_CLIENT).log
               /\ queue' = <<>>
               /\ dispatched' = Pending
               /\ request' = none.request
               /\ sends' = none.sends
               /\ sent' = none.sent
               /\ reply' = none.reply
               /\ recvs' = none.recvs
          ELSE LabelsGoOn(DictGet(nets, <<W("nets")>>).m, <<>>, none)
    /\ UNCHANGED <<phase, KICAD_CLIENT, req_socket, outstanding, prev, dialed, late,
                   closes, disposed, hist>>

\* self.req_socket.send(json.dumps(request).encode()) in place_net_label;
\* when it fails and the except clause returns, the loop goes on
SendLabel(outcome) ==
    /\ pc = "send"
    /\ call.proc = "place_net_label"
    /\ SendPossible(outcome)
    /\ req_socket' = SocketAfter(req_socket, outcome)
    /\ LET d == place_net_label_send(outcome, Head(queue).val)
           last == [request |-> request, sends |-> sends + 1, sent |-> outcome,
                    reply |-> reply, recvs |-> recvs]
       IN CASE AfterSend(outcome) = "recv" ->
                  /\ wire' = Append(wire, JsonDumps(request).txt)
                  /\ outstanding' = outstanding + 1
                  /\ sent' = outcome
                  /\ sends' = sends + 1
                  /\ pc' = "recv"
                  /\ UNCHANGED <<queue, request, reply, recvs, log, dispatched,
                                 result>>
            [] AfterSend(outcome) = "send" ->
                  /\ sent' = outcome
                  /\ sends' = sends + 1
                  /\ UNCHANGED <<pc, wire, outstanding, queue, request, reply,
                                 recvs, log, dispatched, result>>
            [] OTHER ->
                  /\ UNCHANGED <<wire, outstanding>>
                  /\ IF d.kind = "raised"
                     THEN /\ pc' = "done"
                          /\ dispatched' = d
                          /\ result' = Raised(d.exc, <<>>)
                          /\ log' = log \o d.log
                          /\ sent' = outcome
                          /\ sends' = sends + 1
                          /\ UNCHANGED <<queue, request, reply, recvs>>
                     ELSE LabelsGoOn(Tail(queue), log \o d.log, last)
    /\ UNCHANGED <<phase, KICAD_CLIENT, prev, call, steps, dialed, late, replyOf,
                   closes, disposed, hist>>

\* self.req_socket.recv() in place_net_label and everything after it; the
\* loop goes on with the next entry
RecvLabel(outcome, bytes) ==
    /\ pc = "recv"
    /\ call.proc = "place_net_label"
    /\ outstanding' = 0
    /\ req_socket' = SocketAfter(req_socket, outcome)
    /\ LET d == place_net_label_recv(outcome, bytes, Head(queue).val)
           last == [request |-> request, sends |-> sends, sent |-> sent,
                    reply |-> [outcome |-> outcome, bytes |-> bytes],
                    recvs |-> recvs + 1]
       IN IF d.kind = "raised"
          THEN /\ pc' = "done"
               /\ dispatched' = d
               /\ result' = Raised(d.exc, <<>>)
               /\ log' = log \o d.log
               /\ reply' = last.reply
               /\ recvs' = last.recvs
               /\ UNCHANGED <<queue, request, sends, sent>>
          ELSE LabelsGoOn(Tail(queue), log \o d.log, last)
    /\ Received(outcome)
    /\ UNCHANGED <<phase, KICAD_CLIENT, prev, call, wire, steps, dialed, closes,
                   disposed, hist>>

\* the tool function's result goes back to the caller: what the call left
\* in the process is the socket and how its recv ended
Returned_reset ==
    /\ pc = "done"
    /\ pc' = "idle"
    /\ prev' = reply.outcome
    /\ call' = NoCall
    /\ queue' = <<>>
    /\ request' = PyNone
    /\ wire' = <<>>
    /\ sends' = 0
    /\ sent' = ""
    /\ reply' = NoReply
    /\ recvs' = 0
    /\ steps' = <<>>
    /\ log' = <<>>
    /\ dispatched' = Pending
    /\ result' = Pending
    /\ replyOf' = ""
    /\ UNCHANGED <<phase, KICAD_CLIENT, req_socket, outstanding, dialed, late,
                   closes, disposed>>

Return ==
    /\ Returned_reset
    /\ UNCHANGED hist

\* the same, with the call written down for the comparison with the next one
ReturnRemember ==
    /\ call.tool \in QueryTools
    /\ reply.outcome = "reply"
    /\ hist = NoHist
    /\ Returned_reset
    /\ hist' = [tool |-> call.tool, arg |-> call.arg, bytes |-> reply.bytes,
                wire |-> wire, result |-> result]

SendOutcomes == {"ok", "timeout", "error"}
RecvFailures == {"timeout", "error"}

Next ==
    \/ \E u \in SocketUrls : \E d \in DialOutcomes : Main(u, d)
    \/ Imported
    \/ Exit
    \/ Del
    \/ \E tool \in GenericTools :
          \E arg \in (IF Catalog[tool].hasArg THEN Args ELSE {EmptyRecord}) :
             Invoke(tool, arg)
    \/ \E o \in SendOutcomes : Send(o)
    \/ \E b \in ReplyBytes : Recv("reply", b)
    \/ \E o \in RecvFailures : Recv(o, <<>>)
    \/ InvokeNetlist
    \/ \E o \in SendOutcomes : SendNetlist(o)
    \/ \E b \in ReplyBytes : RecvNetlist("reply", b)
    \/ \E o \in RecvFailures : RecvNetlist(o, <<>>)
    \/ \E nets \in NetsArgs : InvokeLabels(nets)
    \/ \E o \in SendOutcomes : SendLabel(o)
    \/ \E b \in ReplyBytes : RecvLabel("reply", b)
    \/ \E o \in RecvFailures : RecvLabel(o, <<>>)
    \/ Return

Spec == Init /\ [][Next]_vars

\* the send and receive timeouts fire: a call waiting in send or in recv
\* goes on
LiveSpec ==
    /\ Spec
    /\ WF_vars(\E o \in SendOutcomes : Send(o))
    /\ WF_vars(\/ \E b \in ReplyBytes : Recv("reply", b)
               \/ \E o \in RecvFailures : Recv(o, <<>>))

\* the same query is issued twice in a row, and the remote side may answer
\* anything each time
NextTwice ==
    \/ \E u \in SocketUrls : \E d \in DialOutcomes : Main(u, d)
    \/ \E tool \in QueryTools :
          \E arg \in (IF Catalog[tool].hasArg THEN Args ELSE {EmptyRecord}) :
             /\ hist = NoHist \/ (hist.tool = tool /\ hist.arg = arg)
             /\ Invoke(tool, arg)
    \/ \E o \in SendOutcomes : Send(o)
    \/ \E b \in ReplyBytes : Recv("reply", b)
    \/ \E o \in RecvFailures : Recv(o, <<>>)
    \/ ReturnRemember

SpecTwice == Init /\ [][NextTwice]_vars

(***************************************************************************)
(* Properties.                                                             *)
(***************************************************************************)
IsErrorReport(r) == r.level = "error"
ErrorCount(lg) == Len(SelectSeq(lg, IsErrorReport))

\* a call of a generic tool has ended
GenericDone == pc = "done" /\ call.proc = "cpp_sdk_action"
\* cpp_sdk_action was entered and has ended
DispatchDone == GenericDone /\ dispatched.kind # "pending"
\* get_current_kicad_project has ended after calling get_netlist
NetlistDone == pc = "done" /\ call.proc = "get_netlist" /\ dispatched.kind # "pending"
\* the send or the recv of this call failed at the transport level
TransportFailed ==
    sent \in {"timeout", "error"} \/ reply.outcome \in {"timeout", "error"}
\* the tools that decode response["msg"]
UnwrapTools ==
    {"query_symbol_library", "query_pcb_layer_names", "query_pcb_all_footprint_info",
     "query_pcb_footprint_info", "queryCurrentFrameType"}
\* the reply bytes of this call are the encoding of v
ReplyIs(v) == reply.outcome = "reply" /\ reply.bytes = DumpsText(v)
HasStatus(v) == v.t = "dict" /\ HasKey(v, <<W("status")>>)

\* C1 as stated: whatever the remote side does, cpp_sdk_action returns an
\* envelope that has a status field, or None, and never ends in a fault.
C1_StatusOrAbsence ==
    DispatchDone =>
        /\ dispatched.kind = "returned"
        /\ dispatched.val = PyNone \/ HasStatus(dispatched.val)

\* C1 amended: cpp_sdk_action never ends in a fault; it returns None or the
\* value the reply encodes, which has a status field whenever the reply is
\* an envelope that carries one.
C1_DecodedOrAbsence ==
    DispatchDone =>
        /\ dispatched.kind = "returned"
        /\ dispatched.val # PyNone =>
              \E v \in ReplyValues :
                  /\ ReplyIs(v)
                  /\ dispatched.val = v
                  /\ HasStatus(v) => HasStatus(dispatched.val)

\* cpp_sdk_action returned an envelope with a status field
C1_Witness ==
    /\ DispatchDone
    /\ ReplyIs(Envelope("ok", PyWord("ok")))
    /\ HasStatus(dispatched.val)

\* C2: with KICAD_CLIENT unset, a generic tool reports an error and returns
\* None, without raising and without sending anything.
C2_UnsetHandleReturnsAbsence ==
    (GenericDone /\ KICAD_CLIENT = "None") =>
        /\ result.kind = "returned"
        /\ result.val = PyNone
        /\ ErrorCount(log) >= 1
        /\ wire = <<>>

\* {"cmd":"netlist"} as it goes over the wire
BareNetlistCommand == <<LB, QW("cmd"), COLON, QW("netlist"), RB>>
\* DocOneNets without its nets element, as ET.tostring writes it
DocOneNetsCleaned == <<DECL_OUT, OPEN("export"), EMPTY("design"), CLOSE("export")>>

\* C3 as stated: the bare netlist command answered by
\* {"status":"ok","msg":{"net_list": <base64 of the document>}} makes
\* get_netlist return the document without its nets element and with an XML
\* declaration.
C3_NetlistUnderMsg ==
    (NetlistDone /\ wire = <<BareNetlistCommand>> /\ ReplyIs(NetlistInMsg(DocOneNets))) =>
        result = Returned(PyStr(DocOneNetsCleaned), <<>>)

\* C3 amended: the bare netlist command answered by
\* {"net_list": <base64 of the document>}, the payload at the top level of
\* the reply, makes get_netlist return the document without its nets element
\* and with an XML declaration; with the payload below msg it returns None.
C3_NetlistTopLevel ==
    (NetlistDone /\ wire = <<BareNetlistCommand>>) =>
        /\ ReplyIs(NetlistReply(DocOneNets)) =>
              result = Returned(PyStr(DocOneNetsCleaned), <<>>)
        /\ ReplyIs(NetlistInMsg(DocOneNets)) =>
              result.kind = "returned" /\ result.val = PyNone

\* get_netlist received the document in the net_list field of the reply
C3_Witness ==
    /\ NetlistDone
    /\ wire = <<BareNetlistCommand>>
    /\ ReplyIs(NetlistReply(DocOneNets))
    /\ result.val.t = "str"

\* C4: when cpp_sdk_action returns None after a timeout or another transport
\* failure, every query tool that unwraps its payload returns None and
\* raises nothing.
C4_UnwrapAfterTransportFailure ==
    (DispatchDone /\ call.tool \in UnwrapTools /\ TransportFailed) =>
        /\ result.kind = "returned"
        /\ result.val = PyNone

\* C5: on a transport failure of the send or of the receive, cpp_sdk_action
\* catches it, emits exactly one error report and returns None.
C5_TransportFailureCaught ==
    (DispatchDone /\ TransportFailed) =>
        /\ dispatched.kind = "returned"
        /\ dispatched.val = PyNone
        /\ ErrorCount(dispatched.log) = 1
        /\ Len(dispatched.log) = 1

\* the receive of a cpp_sdk_action call failed with a connection error
C5_Witness ==
    /\ DispatchDone
    /\ sent = "ok"
    /\ reply.outcome = "error"
    /\ dispatched.val = PyNone

\* the reply decodes to an object that has no msg member
ReplyLacksMsg ==
    /\ reply.outcome = "reply"
    /\ Utf8Ok(reply.bytes)
    /\ JsonLoads(reply.bytes).ok
    /\ JsonLoads(reply.bytes).val.t = "dict"
    /\ ~HasKey(JsonLoads(reply.bytes).val, <<W("msg")>>)

\* C6: for every query-kind tool, a reply without msg is reported, the tool
\* returns None, and the request is not sent again.
C6_MissingMsgReported ==
    (DispatchDone /\ call.tool \in QueryTools /\ ReplyLacksMsg) =>
        /\ result.kind = "returned"
        /\ result.val = PyNone
        /\ ErrorCount(log) = 1
        /\ Len(wire) = 1

\* C7: every query-kind tool returns the payload decoded from the string in
\* msg, every action-kind tool returns the reply envelope as it is.
C7_QueryUnwrapsActionRaw ==
    (DispatchDone /\ ReplyIs(Envelope("ok", PyStr(DumpsText(LibraryList))))) =>
        /\ result.kind = "returned"
        /\ call.tool \in QueryTools => result.val = LibraryList
        /\ call.tool \notin QueryTools =>
              result.val = Envelope("ok", PyStr(DumpsText(LibraryList)))

\* the reply is an object whose msg cannot be decoded a second time
ReplyMsgUndecodable ==
    /\ reply.outcome = "reply"
    /\ Utf8Ok(reply.bytes)
    /\ JsonLoads(reply.bytes).ok
    /\ JsonLoads(reply.bytes).val.t = "dict"
    /\ HasKey(JsonLoads(reply.bytes).val, <<W("msg")>>)
    /\ LET msg == DictGet(JsonLoads(reply.bytes).val, <<W("msg")>>)
       IN msg.t # "str" \/ ~JsonLoads(msg.s).ok

\* C8: a failure of the second-stage decode of msg is caught and reported,
\* and the unwrapping query tool returns None.
C8_SecondDecodeCaught ==
    (DispatchDone /\ call.tool \in UnwrapTools /\ ReplyMsgUndecodable) =>
        /\ result.kind = "returned"
        /\ result.val = PyNone
        /\ ErrorCount(log) >= 1

\* the context member of the envelope that went over the wire
SentContext ==
    DictGet(DictGet(JsonLoads(wire[1]).val, <<W("params")>>), <<W("context")>>)

\* C9: the parameter field of the envelope sent is the record the caller
\* passed to the tool, and the api field is the tool's remote name.
C9_ParameterPassedUnchanged ==
    (call.proc = "cpp_sdk_action" /\ Len(wire) >= 1) =>
        /\ JsonLoads(wire[1]).ok
        /\ DictGet(SentContext, <<W("api")>>) = PyWord(Catalog[call.tool].api)
        /\ Catalog[call.tool].hasArg =>
              DictGet(SentContext, <<W("parameter")>>) = call.arg

\* the positions of the nets start tags and empty-element tags in a text
NetsTags(txt) ==
    {i \in 1..Len(txt) : txt[i].k \in {"<", "/>"} /\ txt[i].n = "nets"}
\* the number of elements open at position i
TagDepth(txt, i) ==
    Cardinality({j \in 1..(i - 1) : txt[j].k = "<"})
    - Cardinality({j \in 1..(i - 1) : txt[j].k = "</"})
\* the only nets element of the document is one child of the root
OneNetsBelowRoot(doc) ==
    /\ Cardinality(NetsTags(doc)) = 1
    /\ \A i \in NetsTags(doc) : TagDepth(doc, i) = 1

\* C10 as stated: for any well-formed document that contains a nets
\* element, what get_netlist returns parses as markup and has no nets
\* element.
C10_NoNetsLeft ==
    \A doc \in WellFormedDocs :
        (NetlistDone /\ ReplyIs(NetlistReply(doc)) /\ NetsTags(doc) # {}) =>
            /\ result.kind = "returned"
            /\ result.val.t = "str"
            /\ XmlParse(result.val.s).ok
            /\ NetsTags(result.val.s) = {}

\* C10 amended: for any well-formed document whose only nets element is a
\* single child of the root element, what get_netlist returns parses as
\* markup and has no nets element.
C10_NoNetsLeftBelowRoot ==
    \A doc \in WellFormedDocs :
        (NetlistDone /\ ReplyIs(NetlistReply(doc)) /\ OneNetsBelowRoot(doc)) =>
            /\ result.kind = "returned"
            /\ result.val.t = "str"
            /\ XmlParse(result.val.s).ok
            /\ NetsTags(result.val.s) = {}

\* get_netlist cleaned a document that has a declaration, character data and
\* one nets section below the root
C10_Witness ==
    /\ NetlistDone
    /\ ReplyIs(NetlistReply(DocDeclNets))
    /\ OneNetsBelowRoot(DocDeclNets)
    /\ result.val.t = "str"
    /\ NetsTags(result.val.s) = {}

RECURSIVE Canon(_)
\* a text without its declaration and comments, every empty-element tag
\* written as a start tag and an end tag
Canon(txt) ==
    IF txt = <<>> THEN <<>>
    ELSE LET h == Head(txt)
         IN (CASE h.k \in {"?xml", "!--"} -> <<>>
               [] h.k = "/>" -> <<OPENA(h.n, h.s), CLOSE(h.n)>>
               [] OTHER -> <<h>>) \o Canon(Tail(txt))

\* C12: for a well-formed document without a nets element, what get_netlist
\* returns has the same elements, attributes and text as the input; it
\* differs only in its serialization, and begins with the encoding
\* declaration.
C12_NoNetsSameContent ==
    \A doc \in WellFormedDocs :
        (NetlistDone /\ ReplyIs(NetlistReply(doc)) /\ NetsTags(doc) = {}) =>
            /\ result.kind = "returned"
            /\ result.val.t = "str"
            /\ result.val.s # <<>>
            /\ Head(result.val.s) = DECL_OUT
            /\ Canon(result.val.s) = Canon(doc)

\* get_netlist returned a document that has attributes, character data and
\* comments but no nets section, in another serialization
C12_Witness ==
    /\ NetlistDone
    /\ ReplyIs(NetlistReply(DocAttrNoNets))
    /\ NetsTags(DocAttrNoNets) = {}
    /\ result.val.t = "str"
    /\ result.val.s # DocAttrNoNets
    /\ Canon(result.val.s) = Canon(DocAttrNoNets)

\* C13: a transport timeout of get_netlist is reported and ends in None; a
\* payload that fails to parse ends in the raw text; so the two never end in
\* the same kind of result.
C13_TimeoutAbsentParseFailureRaw ==
    NetlistDone =>
        /\ (sent = "timeout" \/ reply.outcome = "timeout") =>
              /\ result = Returned(PyNone, <<>>)
              /\ log = <<Err("Timeout while calling netlist command")>>
        /\ \A doc \in MalformedDocs :
              ReplyIs(NetlistReply(doc)) =>
                 /\ result.kind = "returned"
                 /\ result.val.t = "str"
                 /\ log = <<Err("XML parsing failed")>>

\* the recv of get_netlist timed out and the tool returned None
C13_Witness ==
    /\ NetlistDone
    /\ sent = "ok"
    /\ reply.outcome = "timeout"
    /\ result.val = PyNone

\* the reply of this call is a dict without a net_list field
ReplyLacksNetList ==
    \E v \in ReplyValues :
        ReplyIs(v) /\ v.t = "dict" /\ ~HasKey(v, <<W("net_list")>>)

\* C14: when the reply has no payload field, get_netlist stops there: it
\* warns and returns None, and calls neither the base64 decoder nor the
\* markup parser.
C14_MissingPayloadStops ==
    (NetlistDone /\ ReplyLacksNetList) =>
        /\ result = Returned(PyNone, <<>>)
        /\ log = <<Warn("No net_list found in response")>>
        /\ steps = <<>>

\* get_netlist stopped on a reply that is an envelope without net_list
C14_Witness ==
    /\ NetlistDone
    /\ ReplyIs(Envelope("ok", PyWord("ok")))
    /\ ReplyLacksNetList
    /\ result.val = PyNone
    /\ steps = <<>>

\* C15: whatever the reply is and however the transport ends, get_netlist
\* returns a text or None; no exception leaves it.
C15_TextOrAbsence ==
    NetlistDone =>
        /\ dispatched.kind = "returned"
        /\ dispatched.val.t \in {"str", "none"}
        /\ result.kind = "returned"
        /\ result.val = dispatched.val

\* get_netlist ended on reply bytes that are not JSON, and returned None
C15_Witness ==
    /\ NetlistDone
    /\ reply.outcome = "reply"
    /\ ~JsonLoads(reply.bytes).ok
    /\ dispatched = Returned(PyNone, <<Err("Request failed")>>)

\* a call of one of the client methods named by C16 has ended
ClientMethodDone ==
    pc = "done" /\ call.proc \in {"cpp_sdk_action", "get_netlist"}
                /\ dispatched.kind # "pending"

\* C16: when no reply arrives within the receive timeout the client method
\* returns None, and the socket is still open after that call: as long as
\* the process serves, the next call can send its request on it and receive
\* the reply.
C16_TimeoutLeavesSessionOpen ==
    /\ (ClientMethodDone /\ reply.outcome = "timeout") =>
          /\ dispatched.kind = "returned"
          /\ dispatched.val = PyNone
          /\ req_socket.state = "open"
    /\ (prev = "timeout" /\ phase = "serving") =>
          /\ req_socket.state = "open"
          /\ SendPossible("ok")
          /\ SendPossible("timeout")

\* the call after one whose recv timed out sent its request and got its reply
C16_Witness ==
    /\ prev = "timeout"
    /\ ClientMethodDone
    /\ req_socket.state = "open"
    /\ sent = "ok"
    /\ ReplyIs(Envelope("ok", PyWord("ok")))
    /\ dispatched.val = Envelope("ok", PyWord("ok"))

C18_NoRetry ==
    /\ sends <= 1
    /\ recvs <= 1
    /\ recvs <= sends
    /\ sent \in {"timeout", "error"} => (pc = "done" /\ recvs = 0)
    /\ reply.outcome \in {"timeout", "error"} => pc = "done"

\* place_net_label ended on a send that timed out, after one send and no
\* recv, in a tool call whose first entry had been exchanged
C18_Witness ==
    /\ pc = "done"
    /\ call.proc = "place_net_label"
    /\ Len(wire) = 1
    /\ sent = "timeout"
    /\ sends = 1
    /\ recvs = 0

\* the value that went over the wire as the i-th request of this tool call
SentRequest(i) == JsonLoads(wire[i]).val
\* its cmd, its params.action and its params.context
SentCmd(i) == DictGet(SentRequest(i), <<W("cmd")>>)
SentAction(i) == DictGet(DictGet(SentRequest(i), <<W("params")>>), <<W("action")>>)
\* the keys of a dict, in order
Keys(d) == [i \in 1..Len(d.m) |-> d.m[i].key]

\* C19 as stated: cpp_sdk_action is the only code path that sends or
\* receives on the socket; the netlist query and the net-label action go
\* through it too.
C19_OnlyDispatcherSends ==
    (sends >= 1 \/ recvs >= 1 \/ Len(wire) >= 1) => call.proc = "cpp_sdk_action"

\* C19 amended: the three methods of KiCadClient are the only code paths
\* that send or receive on the socket, each for its own requests:
\* cpp_sdk_action sends the generic envelopes, get_netlist itself sends the
\* bare {"cmd":"netlist"} query, and place_net_label itself sends the
\* placeNetLabels action; neither of the two goes through cpp_sdk_action.
C19_EachMethodSendsItsOwn ==
    /\ (sends >= 1 \/ recvs >= 1 \/ Len(wire) >= 1) =>
          /\ KICAD_CLIENT = "KiCadClient"
          /\ call.proc \in {"cpp_sdk_action", "get_netlist", "place_net_label"}
    /\ \A i \in 1..Len(wire) :
          /\ JsonLoads(wire[i]).ok
          /\ call.proc = "cpp_sdk_action" <=>
                /\ SentCmd(i) \in {PyWord("cpp_sdk_action"), PyWord("cpp_sdk_query")}
                /\ SentAction(i) = PyWord("cpp_sdk_api")
          /\ call.proc = "get_netlist" <=> wire[i] = BareNetlistCommand
          /\ call.proc = "place_net_label" <=>
                /\ SentCmd(i) = PyWord("placeNetLabels")
                /\ SentAction(i) = PyWord("place_netlabels")

\* get_netlist sent its bare command itself and received the reply
C19_Witness ==
    /\ NetlistDone
    /\ wire = <<BareNetlistCommand>>
    /\ sends = 1
    /\ recvs = 1
    /\ reply.outcome = "reply"

\* C20: every envelope cpp_sdk_action sends has the generic shape: cmd is
\* "cpp_sdk_query" for the tools that pass that kind and "cpp_sdk_action"
\* for all others, params.action is "cpp_sdk_api", and params.context has
\* exactly the fields api and parameter.
C20_GenericWireShape ==
    (call.proc = "cpp_sdk_action" /\ Len(wire) >= 1) =>
        /\ Len(wire) = 1
        /\ JsonLoads(wire[1]).ok
        /\ SentRequest(1).t = "dict"
        /\ Keys(SentRequest(1)) = <<<<W("cmd")>>, <<W("params")>>>>
        /\ SentCmd(1) = IF call.tool \in
                             {"query_symbol_pin", "query_symbol_library",
                              "query_pcb_layer_names", "query_pcb_all_footprint_info",
                              "query_pcb_footprint_info", "queryCurrentFrameType"}
                        THEN PyWord("cpp_sdk_query")
                        ELSE PyWord("cpp_sdk_action")
        /\ DictGet(SentRequest(1), <<W("params")>>).t = "dict"
        /\ Keys(DictGet(SentRequest(1), <<W("params")>>))
              = <<<<W("action")>>, <<W("context")>>>>
        /\ SentAction(1) = PyWord("cpp_sdk_api")
        /\ SentContext.t = "dict"
        /\ Keys(SentContext) = <<<<W("api")>>, <<W("parameter")>>>>

\* a query tool and an action tool each sent a generic envelope
C20_Witness ==
    /\ GenericDone
    /\ call.tool = "query_symbol_library"
    /\ Len(wire) = 1
    /\ SentCmd(1) = PyWord("cpp_sdk_query")
    /\ Keys(SentContext) = <<<<W("api")>>, <<W("parameter")>>>>

\* the reply bytes of this call are not UTF-8 or not JSON
ReplyUndecodable ==
    reply.outcome = "reply" /\ (~Utf8Ok(reply.bytes) \/ ~JsonLoads(reply.bytes).ok)
\* the send or the recv of this call ran into its timeout
TimedOut == sent = "timeout" \/ reply.outcome = "timeout"

\* C21: a reply that is not well-formed JSON makes cpp_sdk_action return
\* None with the generic failure report and not the timeout report; a send
\* or recv that runs into its timeout gives the timeout report and never
\* the generic one; so a failed call emits exactly one report, and it is
\* the timeout report exactly when the failure was a timeout.
C21_DecodeFailureNotTimeout ==
    DispatchDone =>
        /\ ReplyUndecodable =>
              dispatched = Returned(PyNone, <<Err("Failed to cpp_sdk")>>)
        /\ TimedOut =>
              dispatched = Returned(PyNone, <<Err("Timeout while cpp_sdk")>>)
        /\ dispatched.log # <<>> =>
              /\ Len(dispatched.log) = 1
              /\ dispatched.val = PyNone
              /\ dispatched.log = <<Err("Timeout while cpp_sdk")>> <=> TimedOut

\* cpp_sdk_action got a truncated JSON text and gave the generic report
C21_Witness ==
    /\ DispatchDone
    /\ reply.bytes = <<LB, QW("status")>>
    /\ ReplyUndecodable
    /\ dispatched = Returned(PyNone, <<Err("Failed to cpp_sdk")>>)

\* C22: every query-kind tool whose reply is {"status":"ok","msg": <string
\* encoding a structured value>} returns the value decoded from msg: for
\* the library list, the structure with the one entry named R_0805.
C22_TwoStageDecode ==
    \A tool \in QueryTools :
        (GenericDone /\ call.tool = tool
           /\ ReplyIs(Envelope("ok", PyStr(DumpsText(LibraryList))))) =>
            /\ result = Returned(LibraryList, <<>>)
            /\ DictGet(result.val, <<W("library_list")>>).m[1].val
                  = PyDict(<<KV("symbol_library_name", PyWord("R_0805"))>>)

\* C23: when the session cannot be established at startup the process does
\* not go on to serve, so nothing is ever sent on a session that was not
\* established.
C23_NoServingWithoutSession ==
    /\ dialed \in {"refused", "invalid"} => phase # "serving"
    /\ sends >= 1 => dialed = "connected"

\* C24 as stated, its last part: cpp_sdk_action returns only after the
\* reply arrived or a timeout elapsed.
C24_ReturnsAfterReplyOrBound ==
    DispatchDone => (reply.outcome = "reply" \/ TimedOut)

\* C24 amended: with the timeouts firing, every call of cpp_sdk_action that
\* waits in send or recv comes to its end; it returns the decoded reply or
\* None; a call whose request was sent returns only after its recv ended
\* (with a reply, a timeout or a transport error), and a call whose request
\* could not be encoded or sent returns None without a recv.
C24_DispatchTerminates ==
    /\ []((GenericDone /\ sent = "ok") =>
            (recvs = 1 /\ reply.outcome \in {"reply", "timeout", "error"}))
    /\ []((DispatchDone /\ sent # "ok") => (recvs = 0 /\ dispatched.val = PyNone))
    /\ [](DispatchDone =>
            /\ dispatched.kind = "returned"
            /\ dispatched.val # PyNone =>
                  (reply.outcome = "reply" /\ dispatched.val = JsonLoads(reply.bytes).val))
    /\ (call.proc = "cpp_sdk_action" /\ pc \in {"send", "recv"})
          ~> (call.proc = "cpp_sdk_action" /\ pc = "done")

\* a cpp_sdk_action call ended with its reply after one send and one recv
C24_Witness ==
    /\ DispatchDone
    /\ sent = "ok"
    /\ recvs = 1
    /\ reply.outcome = "reply"
    /\ dispatched.val = Envelope("ok", PyWord("ok"))

\* C25: __del__ is idempotent and never raises: run once or several times,
\* after a clean exit or while a failed __init__ unwinds, it ends without an
\* exception and the socket is closed.
C25_DisposeIdempotent ==
    closes >= 1 =>
        /\ disposed.kind = "returned"
        /\ req_socket.state = "closed"

\* __del__ ran a second time on the socket of a client whose dial raised
C25_Witness ==
    /\ dialed = "invalid"
    /\ closes = 2
    /\ disposed = Returned(PyNone, <<>>)
    /\ req_socket.state = "closed"

C27_HandleCreatedOnce ==
    /\ []((phase = "serving" /\ KICAD_CLIENT = "KiCadClient") =>
            (req_socket.state = "open" /\ req_socket.socket_url \in SocketUrls))
    /\ [](req_socket.state = "closed" => phase = "exited")
    /\ [][phase # "start" =>
            /\ KICAD_CLIENT' = KICAD_CLIENT
            /\ req_socket' # req_socket =>
                  /\ phase = "exited"
                  /\ req_socket' = [req_socket EXCEPT !.state = "closed"]]_vars

\* a tool call whose recv failed with a transport error ended, and the
\* socket is the one __main__ made
C27_Witness ==
    /\ phase = "serving"
    /\ pc = "done"
    /\ reply.outcome = "error"
    /\ prev = "timeout"
    /\ req_socket = KiCadClient_init("ipc:///tmp/kicad_sdk.ipc")

\* place_all_net_labels ended with the client set
LabelsDone ==
    pc = "done" /\ call.proc = "place_net_label" /\ KICAD_CLIENT = "KiCadClient"
\* the entries of nets["nets"] of this call
NetEntries == DictGet(call.arg, <<W("nets")>>).m
\* {"cmd":"placeNetLabels","params":{"action":"place_netlabels","context":rec}}
LegacyEnvelope(rec) ==
    PyDict(<<KV("cmd", PyWord("placeNetLabels")),
             KV("params", PyDict(<<KV("action", PyWord("place_netlabels")),
                                   KV("context", rec)>>))>>)
RECURSIVE IsSubseq(_, _)
\* a is b with some of its elements left out
IsSubseq(a, b) ==
    IF a = <<>> THEN TRUE
    ELSE IF b = <<>> THEN FALSE
    ELSE IF Head(a) = Head(b) THEN IsSubseq(Tail(a), Tail(b))
    ELSE IsSubseq(a, Tail(b))

\* C28: place_all_net_labels takes up every entry of nets, in list order,
\* with one legacy exchange each whose context is the entry unchanged; a
\* timeout or failure on one entry does not keep the later entries from
\* being taken up.
C28_OneExchangePerEntry ==
    LabelsDone =>
        /\ result.kind = "returned"
        /\ queue = <<>>
        /\ IsSubseq(wire, [i \in 1..Len(NetEntries) |->
                              DumpsText(LegacyEnvelope(NetEntries[i].val))])
        /\ log = <<>> => Len(wire) = Len(NetEntries)

C30_PlaceNetLabelNeverRaises ==
    (pc = "done" /\ call.proc = "place_net_label") =>
        /\ dispatched.kind # "raised"
        /\ result.kind = "returned"

\* the net_list of the reply is a non-empty string that is not base64, or
\* whose decoded bytes are not UTF-8
PayloadUndecodable ==
    /\ reply.outcome = "reply"
    /\ Utf8Ok(reply.bytes)
    /\ JsonLoads(reply.bytes).ok
    /\ JsonLoads(reply.bytes).val.t = "dict"
    /\ LET netlist == DictGet(JsonLoads(reply.bytes).val, <<W("net_list")>>)
       IN /\ netlist.t = "str"
          /\ netlist.s # <<>>
          /\ ~B64Decode(netlist.s).ok \/ ~Utf8Ok(B64Decode(netlist.s).bytes)

\* C31: when the base64 decoding of the payload fails, or the decoded bytes
\* are not UTF-8, get_netlist reports the failure and returns None; it
\* neither raises nor returns raw content.
C31_PayloadDecodeFailureAbsent ==
    (NetlistDone /\ PayloadUndecodable) =>
        /\ dispatched = Returned(PyNone, <<Err("Request failed")>>)
        /\ result = Returned(PyNone, <<>>)
        /\ steps \in {<<"b64decode">>, <<"b64decode", "decode">>}

\* get_netlist got a payload whose decoded bytes are not UTF-8
C31_Witness ==
    /\ NetlistDone
    /\ ReplyIs(PyDict(<<KV("net_list", B64Str(<<XFF>>))>>))
    /\ PayloadUndecodable
    /\ steps = <<"b64decode", "decode">>
    /\ result.val = PyNone

\* C32: within one exchange recv is attempted only after the send went
\* through: when the send times out or fails, or the request cannot be
\* built, the call makes no recv.
C32_RecvOnlyAfterSend ==
    /\ (recvs >= 1 \/ reply # NoReply \/ pc = "recv") => (sent = "ok" /\ sends = 1)
    /\ (pc = "done" /\ call.proc # "" /\ sent # "ok") =>
          (recvs = 0 /\ reply = NoReply)

\* get_netlist ended on a send that timed out, without a recv
C32_Witness ==
    /\ NetlistDone
    /\ sent = "timeout"
    /\ sends = 1
    /\ recvs = 0
    /\ reply = NoReply

\* C33: with KICAD_CLIENT unset, get_current_kicad_project reports an error
\* and returns None, and place_all_net_labels reports an error and returns;
\* neither raises, neither sends.
C33_UnsetHandleReturns ==
    (pc = "done" /\ KICAD_CLIENT = "None"
       /\ call.tool \in {"get_current_kicad_project", "place_all_net_labels"}) =>
        /\ result = Returned(PyNone, <<Err("Client not initialized")>>)
        /\ log = <<Err("Client not initialized")>>
        /\ dispatched = Pending
        /\ wire = <<>>
        /\ sends = 0
        /\ recvs = 0

\* place_all_net_labels was called with two entries while KICAD_CLIENT is
\* unset, and returned
C33_Witness ==
    /\ pc = "done"
    /\ KICAD_CLIENT = "None"
    /\ call.tool = "place_all_net_labels"
    /\ Len(DictGet(call.arg, <<W("nets")>>).m) = 2
    /\ result.kind = "returned"
    /\ wire = <<>>

\* C34: no call changes the session: over every step of a tool call, from
\* its beginning to its return, whatever the outcome, the socket's address,
\* its timeouts and its open state stay what they were.
C34_CallLeavesSessionAlone ==
    [][(pc # "idle" \/ pc' # "idle") =>
          /\ req_socket'.socket_url = req_socket.socket_url
          /\ req_socket'.recv_timeout = req_socket.recv_timeout
          /\ req_socket'.send_timeout = req_socket.send_timeout
          /\ req_socket'.state = req_socket.state]_vars

\* place_net_label ended on a recv that timed out, and the socket is as
\* __init__ made it
C34_Witness ==
    /\ pc = "done"
    /\ call.proc = "place_net_label"
    /\ reply.outcome = "timeout"
    /\ req_socket.socket_url = "ipc:///tmp/kicad_sdk.ipc"
    /\ req_socket.recv_timeout = 30000
    /\ req_socket.send_timeout = 30000
    /\ req_socket.state = "open"

\* the request of this call could not be serialized: nothing was sent
EncodeFailed == sends = 0

\* C35 as stated, its last part: cpp_sdk_action returns None only on a
\* transport, encode or decode failure.
C35_AbsenceOnlyOnFailure ==
    (DispatchDone /\ dispatched.val = PyNone) =>
        (TransportFailed \/ ReplyUndecodable \/ EncodeFailed)

\* C35 amended: cpp_sdk_action does not interpret the reply: a reply that
\* decodes is returned exactly as decoded whatever its status (one with
\* status "error" is returned as a value), without a report; None is
\* returned only on a transport, encode or decode failure, each with a
\* report, or when the reply is the JSON value null.
C35_ReplyReturnedAsDecoded ==
    DispatchDone =>
        /\ (reply.outcome = "reply" /\ ~ReplyUndecodable) =>
              dispatched = Returned(JsonLoads(reply.bytes).val, <<>>)
        /\ \A v \in ReplyValues :
              (ReplyIs(v) /\ HasStatus(v)) => dispatched.val = v
        /\ dispatched.val = PyNone =>
              \/ ReplyIs(PyNone) /\ dispatched.log = <<>>
              \/ /\ TransportFailed \/ ReplyUndecodable \/ EncodeFailed
                 /\ Len(dispatched.log) = 1

\* cpp_sdk_action returned a reply whose status is "error" as a value
C35_Witness ==
    /\ DispatchDone
    /\ ReplyIs(Envelope("error", PyWord("msg")))
    /\ dispatched = Returned(Envelope("error", PyWord("msg")), <<>>)

====
